---- MODULE Spec2Model ----
(***************************************************************************)
(* Batched MCTS self-play (nemo_aligner/utils/deep_search/mcts/mcts.py):   *)
(* Node, ParallelSearch, MCTSParallel.search and DeepSearch.search.        *)
(*                                                                         *)
(* Trees are kept in an arena `nodes`: a node is its index, 0 is None.     *)
(* Floats are fixed point: values and priors are integers in percent.      *)
(* A python dict is a sequence of <<key, value>> pairs in insertion order. *)
(***************************************************************************)
EXTENDS Integers, Sequences, FiniteSets, TLC

\* ---------------------------------------------------------------- bounds
MaxCount == 2          \* self-play steps explored per run (count is unbounded in the code)
MaxRuns == 2           \* invocations of DeepSearch.search explored per process
MaxPreempt == 1        \* process interruptions explored
MaxUnitNodes == 4      \* arena size in the Node unit specification
MaxUnitVisits == 2     \* root visits in the Node unit specification

\* ------------------------------------------------------- program constants
PadId == 0
RootAction == -1
NoAction == -1

\* ---------------------------------------------------------------- helpers
Min(a, b) == IF a < b THEN a ELSE b

\* a function on 1..n as an explicit tuple
AsTuple(f) == f \o <<>>

Reverse(s) == AsTuple([k \in 1..Len(s) |-> s[Len(s) + 1 - k]])

RECURSIVE SumSeq(_)
SumSeq(s) == IF s = <<>> THEN 0 ELSE s[1] + SumSeq(Tail(s))

RemoveAt(s, k) == AsTuple([j \in 1..(Len(s) - 1) |-> IF j < k THEN s[j] ELSE s[j + 1]])

\* floor(10 * sqrt(n)), the fixed-point value of math.sqrt(n)
Sqrt10(n) == CHOOSE r \in 0..(10 * n + 1) : r * r <= 100 * n /\ 100 * n < (r + 1) * (r + 1)

\* dict read/write on a sequence of <<key, value>> pairs
DictHas(d, key) == \E k \in 1..Len(d) : d[k][1] = key
DictGet(d, key) == d[CHOOSE k \in 1..Len(d) : d[k][1] = key][2]
DictSet(d, key, v) ==
    IF DictHas(d, key)
    THEN AsTuple([k \in 1..Len(d) |-> IF d[k][1] = key THEN <<key, v>> ELSE d[k]])
    ELSE Append(d, <<key, v>>)

\* an action is an int (list = FALSE, toks = <<a>>) or a python list of tokens
\* (obj names the list object: two nodes holding the same object see each
\* other's in-place changes)
ActInt(a) == [list |-> FALSE, toks |-> <<a>>, obj |-> <<>>]
ActList(s) == [list |-> TRUE, toks |-> s, obj |-> <<>>]

\* ------------------------------------------------------------------- Node
\* init_visit and bp_below are history fields: the visit count the node was
\* built with, and the number of backpropagate calls started at the node or
\* at a node reached from it through children since it was built.
Node(state, parent, action, prior, visit_count) ==
    [state |-> state, parent |-> parent, action |-> action, prior |-> prior,
     children |-> <<>>, dict |-> 0, visit_count |-> visit_count, value_sum |-> 0,
     init_visit |-> visit_count, bp_below |-> 0]

\* the dict object a node's children field refers to: its own (named by the
\* node's id) unless the field was assigned another node's dict
DictOf(ns, id) == IF ns[id].dict = 0 THEN id ELSE ns[id].dict

is_fully_expanded(ns, id) == Len(ns[id].children) > 0

get_ucb(ns, id, child, C) ==
    LET c == ns[child]
        q10 == IF c.visit_count = 0 THEN 10 * c.prior
               ELSE (10 * c.value_sum) \div c.visit_count
    IN q10 + (C * Sqrt10(ns[id].visit_count) * c.prior) \div (c.visit_count + 1)

BetterOrEqual(ucb, best_ucb) == ucb >= best_ucb

\* if ucb > best_ucb
Better(ucb, best_ucb) == ucb > best_ucb

\* best child so far after looking at children[1..k]; 0 is None
RECURSIVE SelectUpTo(_, _, _, _)
SelectUpTo(ns, id, C, k) ==
    IF k = 0 THEN [best |-> 0, ucb |-> 0]
    ELSE LET prev == SelectUpTo(ns, id, C, k - 1)
             child == ns[id].children[k][2]
             ucb == get_ucb(ns, id, child, C)
         IN IF prev.best = 0 \/ Better(ucb, prev.ucb)
            THEN [best |-> child, ucb |-> ucb]
            ELSE prev

select(ns, id, C) == SelectUpTo(ns, id, C, Len(ns[id].children)).best

\* self.children[action] = child
ExpandStore(children, key, child) == DictSet(children, key, child)

RECURSIVE ExpandFrom(_, _, _, _, _)
ExpandFrom(ns, id, policy, actions, k) ==
    IF k > Min(Len(actions), Len(policy)) THEN ns
    ELSE LET a == actions[k]
             newId == Len(ns) + 1
             child == Node(a.toks, id, a, policy[k], 0)
             ns1 == Append(ns, child)
             kids == ExpandStore(ns[id].children, a.toks[1], newId)
             ns2 == AsTuple([n \in 1..Len(ns1) |->
                        IF n <= Len(ns) /\ DictOf(ns, n) = DictOf(ns, id)
                        THEN [ns1[n] EXCEPT !.children = kids] ELSE ns1[n]])
         IN ExpandFrom(ns2, id, policy, actions, k + 1)

expand(ns, id, policy, actions) == ExpandFrom(ns, id, policy, actions, 1)

RECURSIVE backpropagate(_, _, _)
backpropagate(ns, id, value) ==
    LET ns1 == [ns EXCEPT ![id].value_sum = @ + value, ![id].visit_count = @ + 1]
    IN IF ns[id].parent # 0 THEN backpropagate(ns1, ns[id].parent, value) ELSE ns1

\* nodes reached from id through children, id included
RECURSIVE Below(_, _)
Below(ns, id) ==
    {id} \cup UNION {Below(ns, ns[id].children[k][2]) : k \in 1..Len(ns[id].children)}

\* history: one more backpropagate call started at `start`
NoteBackprop(ns, start) ==
    AsTuple([n \in 1..Len(ns) |->
        IF start \in Below(ns, n) THEN [ns[n] EXCEPT !.bp_below = @ + 1] ELSE ns[n]])

\* a top-level call node.backpropagate(value)
Backprop(ns, id, value) == backpropagate(NoteBackprop(ns, id), id, value)

RECURSIVE RevTokensUp(_, _)
RevTokensUp(ns, id) ==
    Reverse(ns[id].state) \o (IF ns[id].parent # 0 THEN RevTokensUp(ns, ns[id].parent) ELSE <<>>)

get_all_tokens(ns, id) == Reverse(RevTokensUp(ns, id))

\* ------------------------------------------------------------ collaborators
\* The termination oracle, the inference oracle and the tokenizer are outside
\* the repository; they are functions of the token history, fixed by `env`.
Decode(tokens) == <<"text", tokens>>

\* --------------------------------------------------- program configuration
NumSearches == 2       \* args["num_searches"]
TopK == 3              \* top_k
UcbC == 2              \* args["C"]
DirichletEpsilon == 25 \* args["dirichlet_epsilon"], percent
MaxSteps == 1          \* max_steps

\* answers says how many entries the inference oracle returns for a request
\* of n: n ("exact"), n - 1 or n + 1 for a leaf batch ("fewer", "more") or
\* for the root call ("rootFewer", "rootMore"); preset is the set of data ids
\* the termination oracle flags terminate from the start of a run
Env(t, th, a, o, io, hv, cx) ==
    [tok3 |-> t, threshold |-> th, acts |-> a, oracle |-> o,
     inference_only |-> io, has_value |-> hv, contexts |-> cx,
     num_searches |-> NumSearches, answers |-> "exact", preset |-> {}]

\* the number of entries in the oracle's answer to a request of n
AnswerCount(e, n, call) ==
    CASE call = "leaf" /\ e.answers = "fewer" -> n - 1
      [] call = "leaf" /\ e.answers = "more" -> n + 1
      [] call = "root" /\ e.answers = "rootFewer" -> n - 1
      [] call = "root" /\ e.answers = "rootMore" -> n + 1
      [] OTHER -> n

WithSearches(e, n) == [e EXCEPT !.num_searches = n]
WithAnswers(e, a) == [e EXCEPT !.answers = a]
WithPreset(e, ds) == [e EXCEPT !.preset = ds]

SameContexts == << <<1>>, <<1>> >>
OtherContexts == << <<1>>, <<1, 1>> >>

\* the configurations explored: tok3 is what a history ending in token 3 is
\* for the termination oracle, threshold the score that sets terminate,
\* acts the oracle's candidate actions
Envs ==
    { Env("win", 90, 3, FALSE, FALSE, TRUE, OtherContexts),
      Env("win", 200, 3, FALSE, FALSE, TRUE, SameContexts),
      Env("win", 200, 1, FALSE, FALSE, TRUE, SameContexts),
      Env("win", 200, 1, FALSE, FALSE, FALSE, OtherContexts),
      Env("win", 90, 2, FALSE, FALSE, TRUE, OtherContexts),
      Env("cut", 200, 2, FALSE, FALSE, TRUE, SameContexts),
      Env("open", 200, 2, FALSE, FALSE, TRUE, OtherContexts),
      Env("win", 90, 2, TRUE, FALSE, TRUE, SameContexts),
      Env("cut", 200, 1, TRUE, FALSE, FALSE, OtherContexts),
      Env("win", 200, 1, FALSE, TRUE, TRUE, OtherContexts),
      Env("win", 90, 3, TRUE, TRUE, TRUE, SameContexts),
      Env("win", 200, 4, FALSE, FALSE, TRUE, SameContexts),
      Env("win", 200, 5, FALSE, FALSE, TRUE, OtherContexts),
      WithSearches(Env("win", 90, 2, TRUE, FALSE, TRUE, OtherContexts), 3),
      WithAnswers(Env("open", 200, 1, FALSE, FALSE, TRUE, OtherContexts), "fewer"),
      WithAnswers(Env("open", 200, 1, FALSE, FALSE, TRUE, OtherContexts), "more"),
      WithAnswers(Env("open", 200, 1, FALSE, FALSE, TRUE, OtherContexts), "rootFewer"),
      WithAnswers(Env("open", 200, 1, FALSE, FALSE, TRUE, SameContexts), "rootMore"),
      WithPreset(Env("open", 200, 1, FALSE, FALSE, TRUE, OtherContexts), {1}) }

VARIABLES
    env,                 \* configuration and collaborators of this process
    nodes,               \* the arena of Node objects
    parallel_searches,   \* DeepSearch.search: the live ParallelSearch list
    backup_root_states, backup_root_nodes,
    return_memory, return_value_memory, return_postive_negative_smaples,
    count,
    cache,               \* MCTSParallel.cache, a dict
    terminate, evaluation_cache,      \* stop_criteria's maps
    save_flag, exit, timer, exit_search_timer,
    file,                \* the checkpoint file: <<>> or <<save_obj>>
    pc, search, spgIdx, expandable_search, result_dict, applyIdx, commitIdx,
    hist                 \* history of the run (calls made, requests, saves)

vars == <<env, nodes, parallel_searches, backup_root_states, backup_root_nodes,
          return_memory, return_value_memory, return_postive_negative_smaples,
          count, cache, terminate, evaluation_cache, save_flag, exit, timer,
          exit_search_timer, file, pc, search, spgIdx, expandable_search,
          result_dict, applyIdx, commitIdx, hist>>

DataIds == 1..2

\* stop_criteria.get_value_and_terminated(text, data_id, depth, tokens)
get_value_and_terminated(e, tokens) ==
    LET last == tokens[Len(tokens)]
        open == [value |-> 0, is_terminal |-> FALSE, ends_properly |-> FALSE, has_answer |-> FALSE]
    IN CASE last = 2 ->
              [value |-> 30, is_terminal |-> TRUE, ends_properly |-> TRUE, has_answer |-> FALSE]
         [] last = 3 /\ e.tok3 = "win" ->
              [value |-> 90, is_terminal |-> TRUE, ends_properly |-> TRUE, has_answer |-> TRUE]
         [] last = 3 /\ e.tok3 = "cut" ->
              [value |-> 10, is_terminal |-> TRUE, ends_properly |-> FALSE, has_answer |-> FALSE]
         [] OTHER -> open

\* what that call leaves in stop_criteria.terminate and .evaluation_cache
StopTerminate(term, e, data_id, tokens) ==
    LET r == get_value_and_terminated(e, tokens)
    IN IF r.is_terminal /\ r.value >= e.threshold
       THEN [term EXCEPT ![data_id] = TRUE] ELSE term

StopEvaluationCache(ec, e, data_id, tokens) ==
    LET r == get_value_and_terminated(e, tokens)
    IN IF r.is_terminal
       THEN [ec EXCEPT ![data_id] = DictSet(@, Decode(tokens), <<r.value, tokens>>)]
       ELSE ec

\* the inference oracle's answer for one context: candidate actions, policy
\* and value (None is -1 when the server has no value head)
OracleActions(e) ==
    CASE e.acts = 1 -> <<ActInt(1), ActInt(2)>>
      [] e.acts = 2 -> <<ActInt(1), ActInt(3)>>
      [] e.acts = 3 -> <<ActList(<<1>>), ActList(<<2, 3>>)>>
      [] e.acts = 4 -> <<ActInt(2), ActInt(3)>>
      [] OTHER -> <<ActInt(2), ActInt(1)>>

OraclePolicy == <<60, 40>>

OracleValue == 50

NoiseSet == {<<50, 50>>, <<0, 100>>}

\* (1 - eps) * policy + eps * dirichlet
MixNoise(policy, noise) ==
    AsTuple([k \in 1..Len(policy) |->
        ((100 - DirichletEpsilon) * policy[k] + DirichletEpsilon * noise[k]) \div 100])

\* ------------------------------------------------------------ ParallelSearch
NoNode == [kind |-> "none", node |-> 0, ends_properly |-> FALSE,
           all_tokens |-> <<>>, is_terminal |-> FALSE]

ParallelSearch(state, data_id) ==
    [state |-> state, data_id |-> data_id, memory |-> <<>>, value_memory |-> {},
     root |-> 0, node |-> NoNode]

NoHist ==
    [runs |-> 0, preempts |-> 0, iterCalls |-> 0, selected |-> {}, request |-> <<>>,
     requested |-> <<>>, applied |-> <<>>, pendingResults |-> 0,
     cleanups |-> <<>>, released |-> <<>>, dropped |-> <<>>, cacheAdds |-> <<>>,
     saves |-> 0, procSaves |-> 0, ticks |-> 0, atSave |-> <<>>, polledExit |-> FALSE,
     returned |-> <<>>, firstRoot |-> <<>>, live0 |-> {}, exitSamples |-> <<>>,
     hit |-> FALSE, prevCached |-> FALSE, op |-> "",
     sel |-> [node |-> 0, child |-> 0, raised |-> FALSE], mismatch |-> FALSE,
     expanded |-> {}, commits |-> [d \in DataIds |-> <<>>],
     sampled |-> <<>>, pb |-> [total |-> MaxSteps, n |-> 0]]

Init ==
    /\ env \in Envs
    /\ nodes = <<>>
    /\ parallel_searches = <<>>
    /\ backup_root_states = <<>>
    /\ backup_root_nodes = <<>>
    /\ return_memory = <<>>
    /\ return_value_memory = <<>>
    /\ return_postive_negative_smaples = <<>>
    /\ count = 0
    /\ cache = <<>>
    /\ terminate = [d \in DataIds |-> FALSE]
    /\ evaluation_cache = [d \in DataIds |-> <<>>]
    /\ save_flag = FALSE
    /\ exit = FALSE
    /\ timer = "running"
    /\ exit_search_timer = "new"
    /\ file = <<>>
    /\ pc = "idle"
    /\ search = 0
    /\ spgIdx = 0
    /\ expandable_search = <<>>
    /\ result_dict = <<>>
    /\ applyIdx = 0
    /\ commitIdx = 0
    /\ hist = NoHist

\* the oracle's action lists as received: list k of the answer for `owner`
Received(actions, owner) ==
    AsTuple([k \in 1..Len(actions) |->
        IF actions[k].list THEN [actions[k] EXCEPT !.obj = <<owner, k>>] ELSE actions[k]])

\* ------------------------------------------------------------ DeepSearch.search
FreshSearches(e) == AsTuple([k \in 1..Len(e.contexts) |-> ParallelSearch(e.contexts[k], k)])

KeptCache(old) == old

\* self.mcts.cache = {}
ClearedCache(old) == <<>>

StartRun ==
    /\ pc = "idle"
    /\ hist.runs < MaxRuns
    /\ IF exit_search_timer # "new"
       THEN \* threading.Timer.start() on a started timer raises RuntimeError
            /\ pc' = "error"
            /\ hist' = [hist EXCEPT !.runs = @ + 1]
            /\ UNCHANGED <<env, nodes, parallel_searches, backup_root_states,
                           backup_root_nodes, return_memory, return_value_memory,
                           return_postive_negative_smaples, count, cache, terminate,
                           evaluation_cache, save_flag, exit, timer, exit_search_timer,
                           file, search, spgIdx, expandable_search, result_dict,
                           applyIdx, commitIdx>>
       ELSE /\ exit_search_timer' = "running"
            /\ cache' = ClearedCache(cache)
            /\ terminate' = [d \in DataIds |-> d \in env.preset]
            /\ evaluation_cache' = [d \in DataIds |-> <<>>]
            /\ return_postive_negative_smaples' = <<>>
            /\ IF file = <<>>
               THEN /\ nodes' = <<>>
                    /\ parallel_searches' = FreshSearches(env)
                    /\ backup_root_states' = env.contexts
                    /\ backup_root_nodes' = <<>>
                    /\ return_memory' = <<>>
                    /\ return_value_memory' = <<>>
                    /\ count' = 0
                    /\ pc' = "loop"
                    /\ hist' = [hist EXCEPT !.runs = @ + 1, !.cleanups = <<>>,
                                            !.dropped = <<>>, !.cacheAdds = <<>>,
                                            !.polledExit = FALSE, !.returned = <<>>,
                                            !.exitSamples = <<>>, !.hit = FALSE,
                                            !.prevCached = (cache # <<>>),
                                            !.live0 = 1..Len(env.contexts),
                                            !.expanded = {},
                                            !.commits = [d \in DataIds |-> <<>>],
                                            !.pb = [total |-> MaxSteps, n |-> 0]]
               ELSE /\ nodes' = file[1].nodes
                    /\ parallel_searches' = file[1].parallel_searches
                    /\ count' = file[1].count
                    /\ backup_root_states' = file[1].backup_root_states
                    /\ return_memory' = file[1].return_memory
                    /\ return_value_memory' = file[1].return_value_memory
                    /\ backup_root_nodes' = file[1].backup_root_nodes
                    /\ pc' = "resumed"
                    /\ hist' = [hist EXCEPT !.runs = @ + 1, !.cleanups = <<>>,
                                            !.dropped = <<>>, !.cacheAdds = <<>>,
                                            !.polledExit = FALSE, !.returned = <<>>,
                                            !.exitSamples = <<>>, !.hit = FALSE,
                                            !.prevCached = (cache # <<>>),
                                            !.live0 = {file[1].parallel_searches[k].data_id :
                                                        k \in 1..Len(file[1].parallel_searches)},
                                            !.released = file[1].search_db,
                                            !.expanded = hist.atSave[1].expanded,
                                            !.commits = hist.atSave[1].commits,
                                            !.pb = [total |-> MaxSteps, n |-> file[1].count]]
            /\ UNCHANGED <<env, save_flag, exit, timer, file, search, spgIdx,
                           expandable_search, result_dict, applyIdx, commitIdx>>

\* MCTSParallel.search, init case: one root per instance from one oracle call
RECURSIVE ColdRoots(_, _, _, _)
ColdRoots(ns, ps, noise, k) ==
    IF k > Len(ps) THEN [nodes |-> ns, ps |-> ps]
    ELSE LET rootId == Len(ns) + 1
             first == CHOOSE j \in 1..k : ps[j].state = ps[k].state
                          /\ \A l \in 1..(j - 1) : ps[l].state # ps[k].state
             spg_action == Received(OracleActions(env), <<"ctx", first>>)
             spg_policy == MixNoise(OraclePolicy, noise[k])
             ns1 == Append(ns, Node(ps[k].state, 0, ActInt(RootAction), 0, 1))
             ns2 == expand(ns1, rootId, spg_policy, spg_action)
         IN ColdRoots(ns2, [ps EXCEPT ![k].root = rootId], noise, k + 1)

\* MCTSParallel.search, the context is already inferred: p.root = p.node
RECURSIVE WarmRoots(_, _, _)
WarmRoots(ns, ps, k) ==
    IF k > Len(ps) THEN [nodes |-> ns, ps |-> ps]
    ELSE LET r == ps[k].node.node
         IN WarmRoots([ns EXCEPT ![r].action = ActInt(RootAction)],
                      [ps EXCEPT ![k].root = r], k + 1)

\* while len(parallel_searches) > 0: count += 1; self.mcts.search(...) up to
\* the first iteration; or leave the loop and return
LoopHead ==
    /\ pc \in {"loop", "resumed"}
    /\ IF Len(parallel_searches) = 0
       THEN /\ pc' = "idle"
            /\ hist' = [hist EXCEPT !.returned = <<return_memory, return_value_memory,
                                                   return_postive_negative_smaples>>]
            /\ UNCHANGED <<nodes, parallel_searches, count, search, spgIdx>>
       ELSE IF parallel_searches[1].node.kind = "none"
               /\ AnswerCount(env, Cardinality({parallel_searches[k].state :
                                     k \in 1..Len(parallel_searches)}), "root")
                     < Cardinality({parallel_searches[k].state :
                                     k \in 1..Len(parallel_searches)})
       THEN \* zip drops the last context: input_policy_map[...] raises KeyError
            /\ count < MaxCount
            /\ count' = count + 1
            /\ pc' = "error"
            /\ hist' = [hist EXCEPT !.mismatch = TRUE, !.pb.n = @ + 1]
            /\ UNCHANGED <<nodes, parallel_searches, search, spgIdx>>
       ELSE /\ count < MaxCount
            /\ count' = count + 1
            /\ \E noise \in [1..Len(parallel_searches) -> NoiseSet] :
                 LET r == IF parallel_searches[1].node.kind # "none"
                          THEN WarmRoots(nodes, parallel_searches, 1)
                          ELSE ColdRoots(nodes, parallel_searches, noise, 1)
                 IN /\ nodes' = r.nodes
                    /\ parallel_searches' = r.ps
            /\ pc' = "select"
            /\ search' = 1
            /\ spgIdx' = 1
            /\ hist' = [hist EXCEPT
                  !.iterCalls = 0, !.selected = {}, !.request = <<>>, !.requested = <<>>,
                  !.applied = <<>>, !.pb.n = @ + 1,
                  !.mismatch = (parallel_searches[1].node.kind = "none"
                                /\ env.answers = "rootMore"),
                  !.expanded = IF parallel_searches[1].node.kind # "none" THEN @
                               ELSE @ \cup {[data_id |-> parallel_searches[k].data_id,
                                              node |-> parallel_searches'[k].root,
                                              ctx |-> parallel_searches[k].state,
                                              step |-> count + 1] :
                                             k \in 1..Len(parallel_searches)},
                  !.firstRoot = IF parallel_searches[1].node.kind # "none" THEN @
                                ELSE [d \in DataIds |->
                                        IF \E k \in 1..Len(parallel_searches) :
                                               parallel_searches[k].data_id = d
                                        THEN parallel_searches'[
                                               CHOOSE k \in 1..Len(parallel_searches) :
                                                 parallel_searches[k].data_id = d].root
                                        ELSE 0]]
    /\ UNCHANGED <<env, backup_root_states, backup_root_nodes, return_memory,
                   return_value_memory, return_postive_negative_smaples, cache,
                   terminate, evaluation_cache, save_flag, exit, timer,
                   exit_search_timer, file, expandable_search, result_dict,
                   applyIdx, commitIdx>>

\* ------------------------------------------------------- MCTSParallel.search
\* while node.is_fully_expanded(): node = node.select(C); depth += 1
RECURSIVE Descend(_, _, _)
Descend(ns, id, depth) ==
    IF is_fully_expanded(ns, id) THEN Descend(ns, select(ns, id, UcbC), depth + 1)
    ELSE [node |-> id, depth |-> depth]

\* where the round goes once the results of iteration `search` are applied
AfterIteration == IF search < env.num_searches THEN "select" ELSE "poll"

\* where the round goes once instance idx has selected its leaf
AfterSelect(idx, n) == IF idx < n THEN "select" ELSE "infer"

CacheMiss(c, key) == FALSE

\* if all_tokens_tuple in self.cache
CacheHit(c, key) == DictHas(c, key)

\* one pass of `for spg in ps` (lines 321-376) for instance spgIdx
SelectLeaf ==
    /\ pc = "select"
    /\ spgIdx \in 1..Len(parallel_searches)
    /\ LET spg == parallel_searches[spgIdx]
           leaf == Descend(nodes, spg.root, 0).node
           all_tokens == get_all_tokens(nodes, leaf)
           r == get_value_and_terminated(env, all_tokens)
           pending == [kind |-> "pending", node |-> leaf, ends_properly |-> r.ends_properly,
                       all_tokens |-> all_tokens, is_terminal |-> r.is_terminal]
           hit == CacheHit(cache, all_tokens)
           value == IF env.oracle THEN r.value ELSE DictGet(cache, all_tokens)
       IN /\ terminate' = StopTerminate(terminate, env, spg.data_id, all_tokens)
          /\ evaluation_cache' = StopEvaluationCache(evaluation_cache, env, spg.data_id, all_tokens)
          /\ IF r.is_terminal /\ (env.oracle \/ hit)
             THEN /\ nodes' = Backprop(nodes, leaf, value)
                  /\ parallel_searches' =
                        [parallel_searches EXCEPT
                           ![spgIdx].node = NoNode,
                           ![spgIdx].value_memory =
                               IF r.ends_properly
                               THEN @ \cup {<<get_all_tokens(nodes, leaf), value, leaf>>}
                               ELSE @]
             ELSE /\ nodes' = nodes
                  /\ parallel_searches' = [parallel_searches EXCEPT ![spgIdx].node = pending]
          /\ hist' = IF spgIdx = 1
                     THEN [hist EXCEPT !.selected = {1}, !.iterCalls = 0, !.request = <<>>,
                                       !.requested = <<>>, !.applied = <<>>,
                                       !.mismatch = FALSE,
                                       !.hit = @ \/ (r.is_terminal /\ ~env.oracle /\ hit)]
                     ELSE [hist EXCEPT !.selected = @ \cup {spgIdx},
                                       !.hit = @ \/ (r.is_terminal /\ ~env.oracle /\ hit)]
    /\ pc' = AfterSelect(spgIdx, Len(parallel_searches))
    /\ spgIdx' = spgIdx + 1
    /\ UNCHANGED <<env, backup_root_states, backup_root_nodes, return_memory,
                   return_value_memory, return_postive_negative_smaples, count, cache,
                   save_flag, exit, timer, exit_search_timer, file, search,
                   expandable_search, result_dict, applyIdx, commitIdx>>

\* line 385: the instances that have a pending leaf
RECURSIVE Expandable(_, _, _)
Expandable(ps, term, k) ==
    IF k > Len(ps) THEN <<>>
    ELSE (IF ps[k].node.kind # "none" THEN <<k>> ELSE <<>>)
            \o Expandable(ps, term, k + 1)

ClearTerminatedNone(ps, term) == ps

\* lines 378-382: drop the pending leaf of instances flagged terminate
ClearTerminated(ps, term) ==
    AsTuple([k \in 1..Len(ps) |-> IF term[ps[k].data_id] THEN [ps[k] EXCEPT !.node = NoNode] ELSE ps[k]])

RECURSIVE MaxOf(_)
MaxOf(s) == IF Len(s) = 1 THEN s[1]
            ELSE LET m == MaxOf(Tail(s)) IN IF s[1] > m THEN s[1] ELSE m

\* action.extend([pad_id] * (max_length - len(action))) on list object obj:
\* every node holding that list as action (and as state) sees it
PadObject(ns, obj, max_length) ==
    AsTuple([n \in 1..Len(ns) |->
        IF ns[n].action.list /\ ns[n].action.obj = obj /\ Len(ns[n].action.toks) < max_length
        THEN LET padded == ns[n].action.toks \o
                              AsTuple([j \in 1..(max_length - Len(ns[n].action.toks)) |-> PadId])
             IN [ns[n] EXCEPT !.action.toks = padded, !.state = padded]
        ELSE ns[n]])

RECURSIVE PadAll(_, _, _, _)
PadAll(ns, leaves, max_length, k) ==
    IF k > Len(leaves) THEN ns
    ELSE PadAll(IF ns[leaves[k]].action.list
                THEN PadObject(ns, ns[leaves[k]].action.obj, max_length) ELSE ns,
                leaves, max_length, k + 1)

PadTo(toks, max_length) == toks \o AsTuple([j \in 1..(max_length - Len(toks)) |-> PadId])

token_to_context_id(ns, all_tokens, node) ==
    IF ns[node].parent = 0 THEN all_tokens
    ELSE SubSeq(all_tokens, 1, Len(all_tokens) - Len(ns[node].state))

get_input_action_depth(ns, ps, expandable) ==
    LET leaves == AsTuple([k \in 1..Len(expandable) |-> ps[expandable[k]].node.node])
        action_length == AsTuple([k \in 1..Len(leaves) |-> Len(ns[leaves[k]].action.toks)])
        max_length == MaxOf(action_length)
        ns1 == PadAll(ns, leaves, max_length, 1)
    IN [nodes |-> ns1,
        actions |-> AsTuple([k \in 1..Len(leaves) |-> PadTo(ns[leaves[k]].action.toks, max_length)]),
        context_ids |-> AsTuple([k \in 1..Len(leaves) |->
                           token_to_context_id(ns1, ps[expandable[k]].node.all_tokens, leaves[k])]),
        data_ids |-> AsTuple([k \in 1..Len(leaves) |-> ps[expandable[k]].data_id])]

\* the oracle answers request entry k with entry k (for = k names the request
\* entry the answer was computed for)
client_fun(request) ==
    AsTuple([k \in 1..AnswerCount(env, Len(request.actions), "leaf") |->
        [action |-> OracleActions(env), policy |-> OraclePolicy,
         value |-> IF env.has_value THEN OracleValue ELSE -1, for |-> k]])

\* lines 378-405: filter, build the request, one oracle call for the batch
InferBatch ==
    /\ pc = "infer"
    /\ LET ps1 == ClearTerminated(parallel_searches, terminate)
           expandable == Expandable(ps1, terminate, 1)
       IN /\ parallel_searches' = ps1
          /\ expandable_search' = expandable
          /\ IF Len(expandable) > 0
             THEN LET req == get_input_action_depth(nodes, ps1, expandable)
                  IN /\ nodes' = req.nodes
                     /\ result_dict' = client_fun(req)
                     /\ pc' = "apply"
                     /\ applyIdx' = 1
                     /\ UNCHANGED <<search, spgIdx>>
                     /\ hist' = [hist EXCEPT
                           !.iterCalls = @ + 1,
                           !.request = [actions |-> req.actions, context_ids |-> req.context_ids,
                                        data_ids |-> req.data_ids],
                           !.requested = AsTuple([k \in 1..Len(expandable) |->
                               [idx |-> expandable[k], leaf |-> ps1[expandable[k]].node.node,
                                is_terminal |-> ps1[expandable[k]].node.is_terminal,
                                all_tokens |-> ps1[expandable[k]].node.all_tokens,
                                state |-> nodes[ps1[expandable[k]].node.node].state,
                                cached |-> DictHas(cache, ps1[expandable[k]].node.all_tokens)]]),
                           !.pendingResults = Len(expandable),
                           !.mismatch = (Len(client_fun(req)) # Len(expandable))]
             ELSE /\ pc' = AfterIteration
                  /\ search' = IF search < env.num_searches THEN search + 1 ELSE search
                  /\ spgIdx' = 1
                  /\ UNCHANGED <<nodes, result_dict, applyIdx, hist>>
    /\ UNCHANGED <<env, backup_root_states, backup_root_nodes, return_memory,
                   return_value_memory, return_postive_negative_smaples, count, cache,
                   terminate, evaluation_cache, save_flag, exit, timer,
                   exit_search_timer, file, commitIdx>>

ResultIndexReversed(i, n) == n + 1 - i

\* policy[i], value[i], actions[i] for the i-th entry of expandable_search
ResultIndex(i, n) == i

\* one pass of lines 407-435, for entry applyIdx of expandable_search, when
\* policy[i], value[i], actions[i] exist
ApplyEntry ==
    /\ pc = "apply"
    /\ applyIdx \in 1..Len(expandable_search)
    /\ LET mappingIdx == expandable_search[applyIdx]
           rd == parallel_searches[mappingIdx].node
           node == rd.node
           entry == result_dict[ResultIndex(applyIdx, Len(expandable_search))]
           value_head_output == IF entry.value # -1 THEN entry.value ELSE nodes[node].prior
       IN /\ IF rd.is_terminal
             THEN /\ nodes' = Backprop(nodes, node, value_head_output)
                  /\ IF rd.ends_properly
                     THEN /\ parallel_searches' =
                               [parallel_searches EXCEPT ![mappingIdx].value_memory =
                                   @ \cup {<<rd.all_tokens, value_head_output, node>>}]
                          /\ cache' = DictSet(cache, rd.all_tokens, value_head_output)
                          /\ hist' = [hist EXCEPT
                                !.applied = Append(@, [leaf |-> node, for |-> entry.for]),
                                !.pendingResults = @ - 1,
                                !.cacheAdds = Append(@,
                                    [key |-> rd.all_tokens, is_terminal |-> rd.is_terminal,
                                     leaf |-> node, oracle |-> env.oracle,
                                     requested |-> \E k \in 1..Len(hist.requested) :
                                                      hist.requested[k].leaf = node])]
                     ELSE /\ UNCHANGED <<parallel_searches, cache>>
                          /\ hist' = [hist EXCEPT
                                !.applied = Append(@, [leaf |-> node, for |-> entry.for]),
                                !.pendingResults = @ - 1]
             ELSE /\ nodes' = Backprop(expand(nodes, node, entry.policy,
                                              Received(entry.action, <<"leaf", node>>)),
                                       node, value_head_output)
                  /\ UNCHANGED <<parallel_searches, cache>>
                  /\ hist' = [hist EXCEPT
                        !.applied = Append(@, [leaf |-> node, for |-> entry.for]),
                        !.pendingResults = @ - 1,
                        !.expanded = @ \cup {[data_id |-> parallel_searches[mappingIdx].data_id,
                                              node |-> node, ctx |-> rd.all_tokens,
                                              step |-> count]}]
    /\ IF applyIdx < Len(expandable_search)
       THEN /\ applyIdx' = applyIdx + 1
            /\ UNCHANGED <<pc, search, spgIdx>>
       ELSE /\ applyIdx' = applyIdx + 1
            /\ pc' = AfterIteration
            /\ search' = IF search < env.num_searches THEN search + 1 ELSE search
            /\ spgIdx' = 1
    /\ UNCHANGED <<env, backup_root_states, backup_root_nodes, return_memory,
                   return_value_memory, return_postive_negative_smaples, count,
                   terminate, evaluation_cache, save_flag, exit, timer,
                   exit_search_timer, file, expandable_search, result_dict, commitIdx>>

\* line 412: policy[i] past the end of the answer raises IndexError
ApplyResult ==
    IF pc = "apply" /\ applyIdx \in 1..Len(expandable_search)
          /\ ResultIndex(applyIdx, Len(expandable_search)) > Len(result_dict)
    THEN /\ pc' = "error"
         /\ UNCHANGED <<env, nodes, parallel_searches, backup_root_states,
                        backup_root_nodes, return_memory, return_value_memory,
                        return_postive_negative_smaples, count, cache, terminate,
                        evaluation_cache, save_flag, exit, timer, exit_search_timer,
                        file, search, spgIdx, expandable_search, result_dict,
                        applyIdx, commitIdx, hist>>
    ELSE ApplyEntry

\* ------------------------------------------------------------ DeepSearch
\* clear_search_db_cache: the context ids released, in call order
RECURSIVE ClearStack(_, _)
ClearStack(ns, stack) ==
    IF stack = <<>> THEN <<>>
    ELSE LET top == stack[Len(stack)]
             rest == SubSeq(stack, 1, Len(stack) - 1)
             kids == ns[top.node].children
             RECURSIVE Pushes(_)
             Pushes(k) ==
                 IF k > Len(kids) THEN <<>>
                 ELSE (IF Len(ns[kids[k][2]].children) # 0
                       THEN <<[node |-> kids[k][2], c_id |-> top.c_id \o ns[kids[k][2]].state]>>
                       ELSE <<>>) \o Pushes(k + 1)
         IN <<top.c_id>> \o ClearStack(ns, rest \o Pushes(1))

clear_search_db_cache(ns, backup_root_node) ==
    ClearStack(ns, <<[node |-> backup_root_node, c_id |-> ns[backup_root_node].state]>>)

\* only the best-scoring entry
LabeledSamplesBest(ec, data_id, backup_state) ==
    LET best == CHOOSE k \in 1..Len(ec[data_id]) :
                    \A j \in 1..Len(ec[data_id]) : ec[data_id][j][2][1] <= ec[data_id][k][2][1]
    IN IF Len(ec[data_id]) = 0 THEN <<>>
       ELSE <<[value |-> ec[data_id][best][2][1], text |-> ec[data_id][best][1],
               tokens |-> ec[data_id][best][2][2], data_id |-> data_id,
               backup_root_states |-> backup_state]>>

\* one labeled sample per entry of evaluation_cache[data_id], in dict order
LabeledSamples(ec, data_id, backup_state) ==
    AsTuple([k \in 1..Len(ec[data_id]) |->
        [value |-> ec[data_id][k][2][1], text |-> ec[data_id][k][1],
         tokens |-> ec[data_id][k][2][2], data_id |-> data_id,
         backup_root_states |-> backup_state]])

\* the history of one instance leaving the live list
NoteDrop(h, ns, spg, root, why) ==
    [h EXCEPT !.cleanups = Append(@,
                  [data_id |-> spg.data_id, root |-> root, why |-> why,
                   ids |-> clear_search_db_cache(ns, root),
                   expanded |-> {e.ctx : e \in {x \in h.expanded : x.data_id = spg.data_id}}]),
              !.released = @ \o clear_search_db_cache(ns, root),
              !.dropped = Append(@, spg.data_id)]

DropBackupLast(backup, i) == RemoveAt(backup, Len(backup))

\* del backup_root_states[i]; del backup_root_nodes[i]
DropBackup(backup, i) == RemoveAt(backup, i)

\* lines 554-586, instance i and then the ones before it
RECURSIVE ExitPass(_, _)
ExitPass(st, i) ==
    IF i = 0 THEN st
    ELSE LET spg == st.ps[i]
         IN IF Len(evaluation_cache[spg.data_id]) > 0
            THEN ExitPass(
                   [ps |-> RemoveAt(st.ps, i),
                    states |-> DropBackup(st.states, i),
                    roots |-> DropBackup(st.roots, i),
                    samples |-> st.samples \o
                        LabeledSamples(evaluation_cache, spg.data_id, st.states[i]),
                    h |-> NoteDrop(st.h, nodes, spg, st.roots[i], "exit")], i - 1)
            ELSE ExitPass(st, i - 1)

BackupRootsEveryStep(cnt, ps, old) == AsTuple([k \in 1..Len(ps) |-> ps[k].root])

\* if count == 1: backup_root_nodes = [spg.root for spg in parallel_searches]
BackupRoots(cnt, ps, old) ==
    IF cnt = 1 THEN AsTuple([k \in 1..Len(ps) |-> ps[k].root]) ELSE old

AfterPollNoBreak(exitFlag) == "commit"

\* the exit branch ends with break, which leaves the loop and returns
AfterPoll(exitFlag) == IF exitFlag THEN "idle" ELSE "commit"

\* lines 549-589: after the search round, take the backup at step 1 and poll
\* the exit flag
Poll ==
    /\ pc = "poll"
    /\ LET roots == BackupRoots(count, parallel_searches, backup_root_nodes)
       IN IF exit
          THEN LET st == ExitPass([ps |-> parallel_searches, states |-> backup_root_states,
                                   roots |-> roots,
                                   samples |-> return_postive_negative_smaples,
                                   h |-> hist], Len(parallel_searches))
               IN /\ parallel_searches' = st.ps
                  /\ backup_root_states' = st.states
                  /\ backup_root_nodes' = st.roots
                  /\ return_postive_negative_smaples' = st.samples
                  /\ exit' = FALSE
                  /\ exit_search_timer' = "new"
                  /\ pc' = AfterPoll(exit)
                  /\ commitIdx' = Len(st.ps)
                  /\ hist' = [st.h EXCEPT !.polledExit = TRUE,
                                 !.exitSamples = SubSeq(st.samples,
                                     Len(return_postive_negative_smaples) + 1, Len(st.samples)),
                                 !.returned = <<return_memory, return_value_memory, st.samples>>]
          ELSE /\ backup_root_nodes' = roots
               /\ pc' = AfterPoll(exit)
               /\ commitIdx' = Len(parallel_searches)
               /\ UNCHANGED <<parallel_searches, backup_root_states,
                              return_postive_negative_smaples, exit, exit_search_timer, hist>>
    /\ UNCHANGED <<env, nodes, return_memory, return_value_memory, count, cache,
                   terminate, evaluation_cache, save_flag, timer, file, search, spgIdx,
                   expandable_search, result_dict, applyIdx>>

\* lines 719-734: per-token running values of one value_memory entry
RECURSIVE ValuesUp(_, _)
ValuesUp(ns, id) ==
    AsTuple([j \in 1..Len(ns[id].state) |-> ns[id].value_sum \div ns[id].visit_count])
        \o (IF ns[id].parent # 0 THEN ValuesUp(ns, ns[id].parent) ELSE <<>>)

ValueMems(ns, value_memory) ==
    {<<m[1], Reverse(ValuesUp(ns, m[3])), m[2]>> : m \in value_memory}

\* 1.0 / self.temperature
InvTemperature == 2

RECURSIVE Pow(_, _)
Pow(a, e) == IF e = 0 THEN 1 ELSE a * Pow(a, e - 1)

\* A probability is a fraction <<numerator, denominator>>; the entries of one
\* vector share their denominator, and 0 / 0 is NaN.
\* lines 592-605: np.zeros(top_k) with the visit count of child k at index k
ChildWeights(ns, root, top_k) ==
    AsTuple([k \in 1..top_k |->
        <<IF k <= Len(ns[root].children)
          THEN ns[ns[root].children[k][2]].visit_count ELSE 0, 1>>])

\* lines 594, 606-609: the children's actions, padded with -1 up to top_k
ChildActions(ns, root, top_k) ==
    AsTuple([k \in 1..top_k |->
        IF k <= Len(ns[root].children)
        THEN ns[ns[root].children[k][2]].action ELSE ActInt(NoAction)])

NormalizeOff(p) == p

\* p /= np.sum(p)
Normalize(p) ==
    LET total == SumSeq(AsTuple([k \in 1..Len(p) |-> p[k][1]]))
    IN AsTuple([k \in 1..Len(p) |-> <<p[k][1], total>>])

\* action_probs ** (1.0 / self.temperature)
Rescale(p) ==
    AsTuple([k \in 1..Len(p) |->
        <<Pow(p[k][1], InvTemperature), Pow(p[k][2], InvTemperature)>>])

SampleableAny(action_probs, k) == TRUE

\* np.random.choice(action_size, p=temperature_action_probs) draws index k
\* only when its probability is not 0
Sampleable(action_probs, k) == action_probs[k][1] > 0

MemoryRowsLastOnly(memory, reward, data_id, context_length) ==
    <<[tokens |-> memory[Len(memory)][1], action_probs |-> memory[Len(memory)][2],
       reward |-> reward, actions |-> memory[Len(memory)][3],
       data_id |-> data_id, context_length |-> context_length]>>

\* lines 704-716: one row per entry of spg.memory, all with the final value
MemoryRows(memory, reward, data_id, context_length) ==
    AsTuple([k \in 1..Len(memory) |->
        [tokens |-> memory[k][1], action_probs |-> memory[k][2],
         reward |-> reward, actions |-> memory[k][3],
         data_id |-> data_id, context_length |-> context_length]])

FakeNodeBare(ns, child_node, state, action) == Node(state, 0, action, 0, 0)

\* lines 630-633: fake_node = Node(spg.state, parent=None, action=action,
\* prior=0.0, visit_count=0); fake_node.children = child_node.children
FakeNode(ns, child_node, state, action) ==
    [Node(state, 0, action, 0, 0) EXCEPT !.children = ns[child_node].children,
                                         !.dict = DictOf(ns, child_node)]

\* one pass of lines 590-748, for instance commitIdx
Commit ==
    /\ pc = "commit"
    /\ commitIdx \in 1..Len(parallel_searches)
    /\ LET i == commitIdx
           spg == parallel_searches[i]
           kids == nodes[spg.root].children
           counts == AsTuple([k \in 1..Len(kids) |-> nodes[kids[k][2]].visit_count])
           total == SumSeq(counts)
           action_probs == Normalize(ChildWeights(nodes, spg.root, TopK))
           actions == ChildActions(nodes, spg.root, TopK)
           temperature_action_probs == Normalize(Rescale(action_probs))
           memory == Append(spg.memory, <<spg.state, action_probs, actions>>)
           after == IF i = 1 THEN "save" ELSE "commit"
           Drop(ps) == RemoveAt(ps, i)
       IN IF Len(kids) > TopK \/ total = 0
          THEN \* IndexError, or np.random.choice on NaN probabilities
               /\ pc' = "error"
               /\ UNCHANGED <<nodes, parallel_searches, backup_root_states,
                              backup_root_nodes, return_memory, return_value_memory,
                              return_postive_negative_smaples, terminate,
                              evaluation_cache, commitIdx, hist>>
          ELSE \E action_index \in 1..TopK :
               /\ Sampleable(temperature_action_probs, action_index)
               /\ IF actions[action_index] = ActInt(NoAction)
                  THEN \* assert action != -1
                       /\ pc' = "error"
                       /\ hist' = [hist EXCEPT !.sampled =
                                     <<[index |-> action_index, action |-> <<NoAction>>,
                                        prob |-> temperature_action_probs[action_index][1],
                                        visits |-> 0, action_probs |-> action_probs,
                                        temperature_action_probs |-> temperature_action_probs,
                                        actions |-> actions]>>]
                       /\ UNCHANGED <<nodes, parallel_searches, backup_root_states,
                                      backup_root_nodes, return_memory, return_value_memory,
                                      return_postive_negative_smaples, terminate,
                                      evaluation_cache, commitIdx>>
                  ELSE
                       /\ LET action == actions[action_index]
                              child_node == DictGet(kids, action.toks[1])
                              state == spg.state \o action.toks
                              fake_node == FakeNode(nodes, child_node, state, action)
                              fakeId == Len(nodes) + 1
                              ns1 == Append(nodes, fake_node)
                              spg1 == [spg EXCEPT !.memory = memory, !.state = state,
                                                  !.node = [NoNode EXCEPT !.kind = "root", !.node = fakeId]]
                              r == get_value_and_terminated(env, state)
                              term1 == StopTerminate(terminate, env, spg.data_id, state)
                              ec1 == StopEvaluationCache(evaluation_cache, env, spg.data_id, state)
                              rows == MemoryRows(memory, r.value, spg.data_id,
                                                 Len(backup_root_states[i]))
                              h1 == [hist EXCEPT
                                       !.sampled = <<[index |-> action_index, action |-> action.toks,
                                                      prob |-> temperature_action_probs[action_index][1],
                                                      visits |-> counts[action_index],
                                                      action_probs |-> action_probs,
                                                      temperature_action_probs |->
                                                          temperature_action_probs,
                                                      actions |-> actions]>>,
                                       !.commits[spg.data_id] =
                                        Append(@, [state |-> spg.state, action |-> action.toks,
                                                   after |-> state])]
                              tokensOk == \A m \in spg.value_memory : get_all_tokens(ns1, m[3]) = m[1]
                          IN /\ nodes' = ns1
                             /\ terminate' = term1
                             /\ evaluation_cache' = ec1
                             /\ IF term1[spg.data_id]
                                THEN /\ return_postive_negative_smaples' =
                                           return_postive_negative_smaples \o
                                           LabeledSamples(ec1, spg.data_id, backup_root_states[i])
                                     /\ hist' = NoteDrop(h1, ns1, spg1, backup_root_nodes[i], "terminate")
                                     /\ parallel_searches' = Drop(parallel_searches)
                                     /\ backup_root_states' = DropBackup(backup_root_states, i)
                                     /\ backup_root_nodes' = DropBackup(backup_root_nodes, i)
                                     /\ pc' = after
                                     /\ UNCHANGED <<return_memory, return_value_memory>>
                                ELSE IF r.is_terminal /\ env.inference_only
                                THEN /\ return_memory' = Append(return_memory,
                                           [tokens |-> state,
                                            reward |-> IF DictHas(cache, state)
                                                       THEN DictGet(cache, state) ELSE -1,
                                            data_id |-> spg.data_id,
                                            context_length |-> Len(backup_root_states[i])])
                                     /\ hist' = NoteDrop(h1, ns1, spg1, backup_root_nodes[i], "inference_only")
                                     /\ parallel_searches' = Drop(parallel_searches)
                                     /\ backup_root_states' = DropBackup(backup_root_states, i)
                                     /\ backup_root_nodes' = DropBackup(backup_root_nodes, i)
                                     /\ pc' = after
                                     /\ UNCHANGED <<return_value_memory, return_postive_negative_smaples>>
                                ELSE IF r.is_terminal /\ ~tokensOk
                                THEN \* assert tuple(all_tokens) == tuple(tokens)
                                     /\ return_memory' = IF r.ends_properly \/ r.has_answer
                                                         THEN return_memory \o rows ELSE return_memory
                                     /\ parallel_searches' = [parallel_searches EXCEPT ![i] = spg1]
                                     /\ pc' = "error"
                                     /\ hist' = h1
                                     /\ UNCHANGED <<backup_root_states, backup_root_nodes,
                                                    return_value_memory,
                                                    return_postive_negative_smaples>>
                                ELSE IF r.is_terminal
                                THEN /\ return_memory' = IF r.ends_properly \/ r.has_answer
                                                         THEN return_memory \o rows ELSE return_memory
                                     /\ return_value_memory' = Append(return_value_memory,
                                           [value_memory |-> ValueMems(ns1, spg.value_memory),
                                            data_id |-> spg.data_id,
                                            backup_root_states |-> backup_root_states[i]])
                                     /\ hist' = NoteDrop(h1, ns1, spg1, backup_root_nodes[i], "terminal")
                                     /\ parallel_searches' = Drop(parallel_searches)
                                     /\ backup_root_states' = DropBackup(backup_root_states, i)
                                     /\ backup_root_nodes' = DropBackup(backup_root_nodes, i)
                                     /\ pc' = after
                                     /\ UNCHANGED return_postive_negative_smaples
                                ELSE /\ parallel_searches' = [parallel_searches EXCEPT ![i] = spg1]
                                     /\ pc' = after
                                     /\ hist' = h1
                                     /\ UNCHANGED <<backup_root_states, backup_root_nodes,
                                                    return_memory, return_value_memory,
                                                    return_postive_negative_smaples>>
                       /\ commitIdx' = commitIdx - 1
    /\ UNCHANGED <<env, count, cache, save_flag, exit, timer, exit_search_timer, file,
                   search, spgIdx, expandable_search, result_dict, applyIdx>>

\* save_obj, with the strategy's state_dict merged in and the Node objects
\* the pickled lists reach
SaveObj ==
    [parallel_searches |-> parallel_searches, count |-> count,
     backup_root_states |-> backup_root_states, backup_root_nodes |-> backup_root_nodes,
     return_memory |-> return_memory, return_value_memory |-> return_value_memory,
     search_db |-> hist.released, nodes |-> nodes]

\* lines 749-770: if self.save_flag: preemptable_save(save_obj, filename)
SaveCheck ==
    /\ pc = "save"
    /\ IF save_flag
       THEN /\ file' = <<SaveObj>>
            /\ save_flag' = FALSE
            /\ hist' = [hist EXCEPT !.saves = @ + 1, !.procSaves = @ + 1,
                          !.atSave = <<[parallel_searches |-> parallel_searches,
                                        count |-> count,
                                        backup_root_states |-> backup_root_states,
                                        backup_root_nodes |-> backup_root_nodes,
                                        return_memory |-> return_memory,
                                        return_value_memory |-> return_value_memory,
                                        return_postive_negative_smaples |->
                                            return_postive_negative_smaples,
                                        nodes |-> nodes,
                                        expanded |-> hist.expanded,
                                        commits |-> hist.commits]>>]
       ELSE UNCHANGED <<file, save_flag, hist>>
    /\ pc' = "loop"
    /\ UNCHANGED <<env, nodes, parallel_searches, backup_root_states, backup_root_nodes,
                   return_memory, return_value_memory, return_postive_negative_smaples,
                   count, cache, terminate, evaluation_cache, exit, timer,
                   exit_search_timer, search, spgIdx, expandable_search, result_dict,
                   applyIdx, commitIdx>>

save_data_rearmed ==
    /\ timer = "running"
    /\ timer' = "running"
    /\ save_flag' = TRUE
    /\ hist' = [hist EXCEPT !.ticks = @ + 1]
    /\ UNCHANGED <<env, nodes, parallel_searches, backup_root_states, backup_root_nodes,
                   return_memory, return_value_memory, return_postive_negative_smaples,
                   count, cache, terminate, evaluation_cache, exit, exit_search_timer,
                   file, pc, search, spgIdx, expandable_search, result_dict, applyIdx,
                   commitIdx>>

\* the threading.Timer started in __init__ runs save_data once
save_data ==
    /\ timer = "running"
    /\ timer' = "finished"
    /\ save_flag' = TRUE
    /\ hist' = [hist EXCEPT !.ticks = @ + 1]
    /\ UNCHANGED <<env, nodes, parallel_searches, backup_root_states, backup_root_nodes,
                   return_memory, return_value_memory, return_postive_negative_smaples,
                   count, cache, terminate, evaluation_cache, exit, exit_search_timer,
                   file, pc, search, spgIdx, expandable_search, result_dict, applyIdx,
                   commitIdx>>

exit_search_both ==
    /\ exit_search_timer = "running"
    /\ exit_search_timer' = "finished"
    /\ exit' = TRUE
    /\ save_flag' = TRUE
    /\ UNCHANGED <<env, nodes, parallel_searches, backup_root_states, backup_root_nodes,
                   return_memory, return_value_memory, return_postive_negative_smaples,
                   count, cache, terminate, evaluation_cache, timer, file, pc,
                   search, spgIdx, expandable_search, result_dict, applyIdx, commitIdx,
                   hist>>

\* the wall-clock timer started by search runs exit_search once
exit_search ==
    /\ exit_search_timer = "running"
    /\ exit_search_timer' = "finished"
    /\ exit' = TRUE
    /\ UNCHANGED <<env, nodes, parallel_searches, backup_root_states, backup_root_nodes,
                   return_memory, return_value_memory, return_postive_negative_smaples,
                   count, cache, terminate, evaluation_cache, save_flag, timer, file, pc,
                   search, spgIdx, expandable_search, result_dict, applyIdx, commitIdx,
                   hist>>

\* the process is interrupted and started again: a new DeepSearch is built
\* (__init__), only the checkpoint file survives
Preempt ==
    /\ pc # "idle"
    /\ hist.preempts < MaxPreempt
    /\ nodes' = <<>>
    /\ parallel_searches' = <<>>
    /\ backup_root_states' = <<>>
    /\ backup_root_nodes' = <<>>
    /\ return_memory' = <<>>
    /\ return_value_memory' = <<>>
    /\ return_postive_negative_smaples' = <<>>
    /\ count' = 0
    /\ cache' = <<>>
    /\ terminate' = [d \in DataIds |-> FALSE]
    /\ evaluation_cache' = [d \in DataIds |-> <<>>]
    /\ save_flag' = FALSE
    /\ exit' = FALSE
    /\ timer' = "running"
    /\ exit_search_timer' = "new"
    /\ pc' = "idle"
    /\ search' = 0
    /\ spgIdx' = 0
    /\ expandable_search' = <<>>
    /\ result_dict' = <<>>
    /\ applyIdx' = 0
    /\ commitIdx' = 0
    /\ hist' = [NoHist EXCEPT !.runs = hist.runs, !.preempts = hist.preempts + 1,
                              !.atSave = hist.atSave, !.saves = hist.saves,
                              !.firstRoot = hist.firstRoot]
    /\ UNCHANGED <<env, file>>

Next ==
    \/ StartRun
    \/ LoopHead
    \/ SelectLeaf
    \/ InferBatch
    \/ ApplyResult
    \/ Poll
    \/ Commit
    \/ SaveCheck
    \/ save_data
    \/ exit_search
    \/ Preempt

Spec == Init /\ [][Next]_vars

\* ------------------------------------------------ Node operations on their own
\* SpecNode applies expand and backpropagate, in any order, to any node of a
\* small tree.
UnitActions ==
    { <<ActInt(1), ActInt(2)>>, <<ActInt(2)>>, <<ActList(<<1, 2>>), ActInt(2)>> }

UnitPolicies == { <<60, 40>>, <<30, 70>>, <<50, 50>> }

InitNode ==
    /\ env = Env("win", 200, 1, FALSE, FALSE, TRUE, SameContexts)
    /\ nodes = <<Node(<<1>>, 0, ActInt(RootAction), 0, 1)>>
    /\ parallel_searches = <<>>
    /\ backup_root_states = <<>>
    /\ backup_root_nodes = <<>>
    /\ return_memory = <<>>
    /\ return_value_memory = <<>>
    /\ return_postive_negative_smaples = <<>>
    /\ count = 0
    /\ cache = <<>>
    /\ terminate = [d \in DataIds |-> FALSE]
    /\ evaluation_cache = [d \in DataIds |-> <<>>]
    /\ save_flag = FALSE
    /\ exit = FALSE
    /\ timer = "running"
    /\ exit_search_timer = "new"
    /\ file = <<>>
    /\ pc = "unit"
    /\ search = 0
    /\ spgIdx = 0
    /\ expandable_search = <<>>
    /\ result_dict = <<>>
    /\ applyIdx = 0
    /\ commitIdx = 0
    /\ hist = NoHist

UnitExpand ==
    /\ pc = "unit"
    /\ \E id \in 1..Len(nodes), actions \in UnitActions, policy \in UnitPolicies :
         /\ Len(nodes) + Len(actions) <= MaxUnitNodes
         /\ nodes' = expand(nodes, id, policy, actions)
    /\ hist' = [hist EXCEPT !.op = "expand"]
    /\ UNCHANGED <<env, parallel_searches, backup_root_states, backup_root_nodes,
                   return_memory, return_value_memory, return_postive_negative_smaples,
                   count, cache, terminate, evaluation_cache, save_flag, exit, timer,
                   exit_search_timer, file, pc, search, spgIdx, expandable_search,
                   result_dict, applyIdx, commitIdx>>

UnitBackprop ==
    /\ pc = "unit"
    /\ nodes[1].visit_count < MaxUnitVisits
    /\ \E id \in 1..Len(nodes), value \in {10, 50} :
         nodes' = Backprop(nodes, id, value)
    /\ hist' = [hist EXCEPT !.op = "backpropagate"]
    /\ UNCHANGED <<env, parallel_searches, backup_root_states, backup_root_nodes,
                   return_memory, return_value_memory, return_postive_negative_smaples,
                   count, cache, terminate, evaluation_cache, save_flag, exit, timer,
                   exit_search_timer, file, pc, search, spgIdx, expandable_search,
                   result_dict, applyIdx, commitIdx>>

\* node.select(C) on any node: the call returns best_child, which is None
\* (0) when the loop over self.children never runs; it has no raise
UnitSelect ==
    /\ pc = "unit"
    /\ \E id \in 1..Len(nodes) :
         hist' = [hist EXCEPT !.op = "select",
                              !.sel = [node |-> id, child |-> select(nodes, id, UcbC),
                                       raised |-> FALSE]]
    /\ UNCHANGED <<env, nodes, parallel_searches, backup_root_states, backup_root_nodes,
                   return_memory, return_value_memory, return_postive_negative_smaples,
                   count, cache, terminate, evaluation_cache, save_flag, exit, timer,
                   exit_search_timer, file, pc, search, spgIdx, expandable_search,
                   result_dict, applyIdx, commitIdx>>

NextNode == UnitExpand \/ UnitBackprop \/ UnitSelect

SpecNode == InitNode /\ [][NextNode]_vars

\* ----------------------------------------------------------------- claims
\* C1: every node's visit_count is the count it was built with plus the number
\* of backpropagate calls started at the node or at a node below it (reached
\* through children), the root installed by a commit included.
C1_VisitCountCountsBackprops ==
    \A n \in 1..Len(nodes) :
        nodes[n].visit_count = nodes[n].init_visit + nodes[n].bp_below

\* C2: an expand step leaves every child that was already in a children dict
\* in place: same child node under the same key, with the same fields.
C2_ExpandKeepsExistingChildren ==
    [][hist'.op = "expand" =>
        \A n \in 1..Len(nodes) : \A k \in 1..Len(nodes[n].children) :
            LET key == nodes[n].children[k][1]
                child == nodes[n].children[k][2]
            IN /\ DictHas(nodes'[n].children, key)
               /\ DictGet(nodes'[n].children, key) = child
               /\ nodes'[child] = nodes[child]]_vars

LiveIds == {parallel_searches[k].data_id : k \in 1..Len(parallel_searches)}

ExitDropped == {hist.cleanups[k].data_id :
                   k \in {j \in 1..Len(hist.cleanups) : hist.cleanups[j].why = "exit"}}

SamplesOf(samples, d) ==
    LET Mine(x) == x.data_id = d IN SelectSeq(samples, Mine)

EntryValues(d) == AsTuple([k \in 1..Len(evaluation_cache[d]) |-> evaluation_cache[d][k][2][1]])

\* C3: in a run, the instances that left the live list are exactly the ones
\* a cleanup was called for, in the same order, once each, and the cleanup's
\* argument is the root the instance got in the first search round.
C3_CleanupOncePerDrop ==
    hist.live0 # {} =>
        /\ LiveIds \cup {hist.dropped[k] : k \in 1..Len(hist.dropped)} = hist.live0
        /\ \A k \in 1..Len(hist.dropped) : hist.dropped[k] \notin LiveIds
        /\ Len(hist.cleanups) = Len(hist.dropped)
        /\ \A k \in 1..Len(hist.cleanups) :
              /\ hist.cleanups[k].data_id = hist.dropped[k]
              /\ hist.cleanups[k].root = hist.firstRoot[hist.dropped[k]]
              /\ \A j \in 1..Len(hist.cleanups) :
                    j # k => hist.cleanups[j].data_id # hist.cleanups[k].data_id

\* an instance dropped by a terminal commit of step 2, after its root was
\* replaced by a commit of step 1
C3_Witness ==
    \E k \in 1..Len(hist.cleanups) :
        /\ hist.cleanups[k].why = "terminal"
        /\ count >= 2
        /\ Len(hist.commits[hist.cleanups[k].data_id]) = 2
        /\ hist.cleanups[k].root = hist.firstRoot[hist.cleanups[k].data_id]

\* C4: a run resumed from the checkpoint file holds what the driver held when
\* it wrote the file: instances, backups, count and the three collections.
C4_CheckpointRoundTrip ==
    pc = "resumed" =>
        /\ parallel_searches = hist.atSave[1].parallel_searches
        /\ backup_root_states = hist.atSave[1].backup_root_states
        /\ backup_root_nodes = hist.atSave[1].backup_root_nodes
        /\ count = hist.atSave[1].count
        /\ return_memory = hist.atSave[1].return_memory
        /\ return_value_memory = hist.atSave[1].return_value_memory
        /\ return_postive_negative_smaples = hist.atSave[1].return_postive_negative_smaples

\* C5 as stated: at the exit poll every instance with evaluation-cache
\* entries yields exactly one labeled sample, carrying the maximum value.
C5_OneBestSamplePerInstance ==
    hist.polledExit =>
        \A d \in ExitDropped :
            /\ Len(SamplesOf(hist.exitSamples, d)) = 1
            /\ SamplesOf(hist.exitSamples, d)[1].value = MaxOf(EntryValues(d))

\* C5 amended: at the exit poll every instance with evaluation-cache entries
\* yields one labeled sample per entry, in entry order, each with its entry's
\* value (the maximum is one of them); other instances yield none.
C5_OneSamplePerEntry ==
    hist.polledExit =>
        \A d \in DataIds :
            LET mine == SamplesOf(hist.exitSamples, d)
            IN IF d \in ExitDropped
               THEN /\ AsTuple([k \in 1..Len(mine) |-> mine[k].value]) = EntryValues(d)
                    /\ \E k \in 1..Len(mine) : mine[k].value = MaxOf(EntryValues(d))
               ELSE mine = <<>>

\* the exit poll met an instance holding entries of value 30 and 90
C5_Witness ==
    /\ hist.polledExit
    /\ \E d \in ExitDropped : {30, 90} \subseteq {EntryValues(d)[k] : k \in 1..Len(EntryValues(d))}

\* C6: the step in which the driver polls a set exit flag ends the run: it
\* returns the collections, adds no training or value row, commits nothing,
\* starts no round, and an instance without entries gives no sample.
C6_ExitEndsRun ==
    [][(pc = "poll" /\ exit /\ pc' # pc /\ hist'.preempts = hist.preempts) =>
        /\ pc' = "idle"
        /\ return_memory' = return_memory
        /\ return_value_memory' = return_value_memory
        /\ count' = count
        /\ nodes' = nodes
        /\ \A k \in 1..Len(parallel_searches') :
              \E j \in 1..Len(parallel_searches) : parallel_searches[j] = parallel_searches'[k]
        /\ hist'.returned = <<return_memory', return_value_memory',
                              return_postive_negative_smaples'>>
        /\ \A j \in 1..Len(parallel_searches) :
              Len(evaluation_cache[parallel_searches[j].data_id]) = 0 =>
                  /\ SamplesOf(hist'.exitSamples, parallel_searches[j].data_id) = <<>>
                  /\ \E k \in 1..Len(parallel_searches') :
                        parallel_searches'[k] = parallel_searches[j]]_vars

\* the run has returned at an exit poll with an instance that had no entry
C6_Witness ==
    /\ hist.polledExit
    /\ pc = "idle"
    /\ \E k \in 1..Len(parallel_searches) :
          Len(evaluation_cache[parallel_searches[k].data_id]) = 0

C8_BatchOrder ==
    pc \in {"select", "infer", "apply"} =>
        /\ hist.iterCalls <= 1
        /\ hist.iterCalls = 1 =>
              /\ hist.selected = 1..Len(parallel_searches)
              /\ Len(hist.requested) > 0
        /\ pc = "apply" =>
              /\ hist.iterCalls = 1
              /\ \A k \in 1..Len(hist.requested) : \A j \in 1..Len(hist.requested) :
                    j < k => hist.requested[j].idx < hist.requested[k].idx
              /\ {hist.requested[k].idx : k \in 1..Len(hist.requested)} =
                    {m \in 1..Len(parallel_searches) :
                        parallel_searches[m].node.kind = "pending"}
              /\ \A k \in 1..Len(hist.requested) :
                    /\ hist.requested[k].leaf = parallel_searches[hist.requested[k].idx].node.node
                    /\ Len(hist.request.actions) = Len(hist.requested)
        /\ \A k \in 1..Len(hist.applied) :
              /\ hist.applied[k].for = k
              /\ hist.applied[k].leaf = hist.requested[k].leaf
        /\ pc = "select" => hist.pendingResults = 0

\* both instances' leaves went into one request and both answers are applied
C8_Witness ==
    /\ hist.iterCalls = 1
    /\ Len(hist.requested) = 2
    /\ Len(hist.applied) = 2
    /\ hist.requested[1].leaf # hist.requested[2].leaf

\* C9: no terminal leaf whose token history is a cache key is requested from
\* the oracle; on a hit the cached value is backpropagated in the selecting
\* step, the hit leaf is not pending, and it is recorded when it ends cleanly.
C9_CachedLeafNotRequested ==
    /\ [](\A k \in 1..Len(hist.requested) :
             hist.requested[k].is_terminal => ~hist.requested[k].cached /\ ~env.oracle)
    /\ [][(pc = "select" /\ spgIdx' = spgIdx + 1) =>
            LET leaf == Descend(nodes, parallel_searches[spgIdx].root, 0).node
                toks == get_all_tokens(nodes, leaf)
                r == get_value_and_terminated(env, toks)
            IN (r.is_terminal /\ ~env.oracle /\ DictHas(cache, toks)) =>
                 /\ nodes'[leaf].visit_count = nodes[leaf].visit_count + 1
                 /\ nodes'[leaf].value_sum = nodes[leaf].value_sum + DictGet(cache, toks)
                 /\ parallel_searches'[spgIdx].node.kind = "none"
                 /\ r.ends_properly =>
                       <<toks, DictGet(cache, toks), leaf>> \in
                           parallel_searches'[spgIdx].value_memory]_vars

\* a terminal leaf was found in the cache, without oracle mode
C9_Witness == hist.hit /\ ~env.oracle /\ cache # <<>>

\* C10: the cache is empty when a run starts; every key in it was added in
\* this run, for a terminal leaf that was in the oracle request, never in
\* oracle mode.
C10_CacheScope ==
    /\ (pc = "resumed" \/ (pc = "loop" /\ count = 0)) => cache = <<>>
    /\ \A k \in 1..Len(hist.cacheAdds) :
          /\ hist.cacheAdds[k].is_terminal
          /\ ~hist.cacheAdds[k].oracle
          /\ hist.cacheAdds[k].requested
    /\ \A j \in 1..Len(cache) :
          \E k \in 1..Len(hist.cacheAdds) : hist.cacheAdds[k].key = cache[j][1]
    /\ env.oracle => cache = <<>>

\* a run starts with an empty cache after a run that had cached values
C10_Witness ==
    /\ hist.prevCached
    /\ pc = "loop"
    /\ count = 0
    /\ cache = <<>>

\* C12: select called on a node without children fails (InvalidState); it
\* returns neither a node nor None.
C12_SelectOnLeafFails ==
    (hist.op = "select" /\ ~is_fully_expanded(nodes, hist.sel.node)) => hist.sel.raised

\* C13: select on an expanded node returns a child whose UCB score is maximal
\* and strictly above the score of every child before it in the dict's
\* iteration order; the same call on the same tree returns the same child.
C13_SelectFirstMaximal ==
    (hist.op = "select" /\ is_fully_expanded(nodes, hist.sel.node)) =>
        LET n == hist.sel.node
            kids == nodes[n].children
            pos == CHOOSE k \in 1..Len(kids) : kids[k][2] = hist.sel.child
        IN /\ \E k \in 1..Len(kids) : kids[k][2] = hist.sel.child
           /\ ~hist.sel.raised
           /\ \A k \in 1..Len(kids) :
                 get_ucb(nodes, n, kids[k][2], UcbC) <= get_ucb(nodes, n, hist.sel.child, UcbC)
           /\ \A k \in 1..(pos - 1) :
                 get_ucb(nodes, n, kids[k][2], UcbC) < get_ucb(nodes, n, hist.sel.child, UcbC)
           /\ select(nodes, n, UcbC) = hist.sel.child

\* two children tie at the maximal score and the first of them was returned
C13_Witness ==
    /\ hist.op = "select"
    /\ is_fully_expanded(nodes, hist.sel.node)
    /\ LET n == hist.sel.node
           kids == nodes[n].children
       IN \E j \in 1..Len(kids) : \E k \in (j + 1)..Len(kids) :
             /\ kids[j][2] = hist.sel.child
             /\ get_ucb(nodes, n, kids[k][2], UcbC) = get_ucb(nodes, n, kids[j][2], UcbC)

\* C11: a round whose oracle answer has another length than the request does
\* not go on: it is applying the answer's entries or has stopped with a
\* fatal error; it never reaches the next selection or the poll.
C11_LengthMismatchIsFatal == hist.mismatch => pc \in {"apply", "error"}

\* C14: in oracle mode, when the first search round over fresh instances is
\* over, every instance's root has a visit count of at least num_searches.
C14_RootVisitsAtLeastNumSearches ==
    (pc = "poll" /\ count = 1 /\ env.oracle) =>
        \A k \in 1..Len(parallel_searches) :
            nodes[parallel_searches[k].root].visit_count >= env.num_searches

ChildVisits(ns, id) ==
    SumSeq(AsTuple([k \in 1..Len(ns[id].children) |-> ns[ns[id].children[k][2]].visit_count]))

\* C15: when a search round is over, every node with children in every
\* instance's tree, the root included, has a visit count of one plus the sum
\* of its children's visit counts.
C15_VisitsAreOnePlusChildren ==
    pc = "poll" =>
        \A k \in 1..Len(parallel_searches) :
            \A n \in Below(nodes, parallel_searches[k].root) :
                is_fully_expanded(nodes, n) =>
                    nodes[n].visit_count = 1 + ChildVisits(nodes, n)

\* C16: the cleanup of a dropped instance releases every context id that was
\* expanded in the instance's tree during the run (the token history each
\* expanded node had when it was expanded, continuation rounds included),
\* each exactly once, and nothing else.
C16_OneReleasePerExpandedContext ==
    \A k \in 1..Len(hist.cleanups) :
        LET ids == hist.cleanups[k].ids
        IN /\ \A i \in 1..Len(ids) : \A j \in 1..Len(ids) : i # j => ids[i] # ids[j]
           /\ {ids[i] : i \in 1..Len(ids)} = hist.cleanups[k].expanded

\* the context ids held by the tree below a backup root
TreeContexts(ns, root) ==
    {clear_search_db_cache(ns, root)[i] : i \in 1..Len(clear_search_db_cache(ns, root))}

\* C17: a step that drops instances releases no context id that the tree of
\* an instance still live after the step holds.
C17_ReleaseOnlyUnshared ==
    [][(Len(hist'.cleanups) > Len(hist.cleanups) /\ hist'.runs = hist.runs
           /\ hist'.preempts = hist.preempts) =>
        \A k \in (Len(hist.cleanups) + 1)..Len(hist'.cleanups) :
            \A j \in 1..Len(backup_root_nodes') :
                \A i \in 1..Len(hist'.cleanups[k].ids) :
                    hist'.cleanups[k].ids[i] \notin TreeContexts(nodes', backup_root_nodes'[j])]_vars

\* C18: an instance whose terminate flag is set when the first search round
\* runs meets no fatal error in the first pass of the driver loop and is gone
\* from the live list when the pass is over, with no training-memory row and
\* one labeled sample per entry of its evaluation cache.
C18_PresetTerminateDropped ==
    \A d \in env.preset :
        count = 1 =>
            /\ (pc = "error" /\ commitIdx \in 1..Len(parallel_searches)) =>
                   parallel_searches[commitIdx].data_id # d
            /\ pc = "save" =>
                   /\ d \notin LiveIds
                   /\ SamplesOf(return_memory, d) = <<>>
                   /\ AsTuple([k \in 1..Len(SamplesOf(return_postive_negative_smaples, d)) |->
                          SamplesOf(return_postive_negative_smaples, d)[k].value])
                        = EntryValues(d)

\* C19: in normal mode, a commit that makes its instance terminal without the
\* terminate flag adds to the training memory, when the play ended cleanly
\* or reached an answer, one row per action the instance has committed since
\* its game started, in commit order, each with the tokens held before that
\* commit and the terminal value as reward; otherwise it adds no row.
C19_OneRowPerCommittedAction ==
    [][(pc = "commit" /\ commitIdx \in 1..Len(parallel_searches)
          /\ hist'.preempts = hist.preempts
          /\ Len(hist'.commits[parallel_searches[commitIdx].data_id])
                = Len(hist.commits[parallel_searches[commitIdx].data_id]) + 1) =>
        LET d == parallel_searches[commitIdx].data_id
            mine == hist'.commits[d]
            r == get_value_and_terminated(env, mine[Len(mine)].after)
            new == SubSeq(return_memory', Len(return_memory) + 1, Len(return_memory'))
        IN (r.is_terminal /\ ~env.inference_only /\ ~terminate'[d]) =>
              /\ SubSeq(return_memory', 1, Len(return_memory)) = return_memory
              /\ IF r.ends_properly \/ r.has_answer
                 THEN /\ Len(new) = Len(mine)
                      /\ \A k \in 1..Len(new) :
                            /\ new[k].tokens = mine[k].state
                            /\ new[k].reward = r.value
                            /\ new[k].data_id = d
                            /\ \E a \in 1..Len(new[k].actions) :
                                  new[k].actions[a].toks = mine[k].action
                 ELSE new = <<>>]_vars

\* an instance committed two actions and the second one ended its game: two
\* rows with the same reward
C19_Witness ==
    \E d \in DataIds :
        /\ Len(hist.commits[d]) = 2
        /\ Len(SamplesOf(return_memory, d)) = 2
        /\ SamplesOf(return_memory, d)[1].reward = SamplesOf(return_memory, d)[2].reward
        /\ SamplesOf(return_memory, d)[1].tokens # SamplesOf(return_memory, d)[2].tokens

\* C20: the action drawn at a commit is never the "no action" sentinel: the
\* index drawn has a non-zero probability and is the index of a root child
\* with a non-zero visit count, and that child's action is what the instance
\* commits.
C20_SentinelNeverCommitted ==
    /\ [](\A k \in 1..Len(hist.sampled) :
             /\ hist.sampled[k].prob > 0
             /\ hist.sampled[k].visits > 0
             /\ hist.sampled[k].action # <<NoAction>>)
    /\ [][\A d \in DataIds :
            (pc = "commit" /\ Len(hist'.commits[d]) = Len(hist.commits[d]) + 1) =>
                /\ hist'.commits[d][Len(hist'.commits[d])].action # <<NoAction>>
                /\ hist'.commits[d][Len(hist'.commits[d])].action = hist'.sampled[1].action]_vars

\* an action was committed from a root with fewer children than top_k, whose
\* action list ends with the sentinel at probability 0
C20_Witness ==
    /\ pc \in {"commit", "save"}
    /\ \E d \in DataIds :
          /\ hist.commits[d] # <<>>
          /\ \E k \in 1..Len(return_memory) :
                /\ return_memory[k].data_id = d
                /\ return_memory[k].actions[TopK] = ActInt(NoAction)
                /\ return_memory[k].action_probs[TopK][1] = 0
    /\ hist.sampled # <<>>
    /\ hist.sampled[1].index < TopK

\* the entries of a probability vector add up to 1
SumsToOne(p) ==
    /\ \A k \in 1..Len(p) : p[k][2] = p[1][2]
    /\ p[1][2] # 0
    /\ SumSeq(AsTuple([k \in 1..Len(p) |-> p[k][1]])) = p[1][2]

\* C21: at a commit from a root with a visited child, the action-probability
\* vector has top_k entries: entry k is child k's visit count over the sum of
\* the children's visit counts, in the dict's order, with child k's action;
\* the other entries are 0 with the sentinel action; the vector and the
\* temperature-rescaled vector each add up to 1.
C21_ActionProbsNormalized ==
    [][(pc = "commit" /\ commitIdx \in 1..Len(parallel_searches)
          /\ hist'.preempts = hist.preempts
          /\ (commitIdx' = commitIdx - 1 \/ pc' = "error")
          /\ ChildVisits(nodes, parallel_searches[commitIdx].root) > 0) =>
        LET root == parallel_searches[commitIdx].root
            kids == nodes[root].children
            s == hist'.sampled[1]
        IN /\ Len(s.action_probs) = TopK
           /\ Len(s.actions) = TopK
           /\ Len(s.temperature_action_probs) = TopK
           /\ \A k \in 1..TopK :
                 IF k <= Len(kids)
                 THEN /\ s.action_probs[k] = <<nodes[kids[k][2]].visit_count,
                                               ChildVisits(nodes, root)>>
                      /\ s.actions[k] = nodes[kids[k][2]].action
                 ELSE /\ s.action_probs[k][1] = 0
                      /\ s.temperature_action_probs[k][1] = 0
                      /\ s.actions[k] = ActInt(NoAction)
           /\ SumsToOne(s.action_probs)
           /\ SumsToOne(s.temperature_action_probs)]_vars

\* a commit from a root with two visited children of different counts: the
\* rescaled vector differs from the vector and both are padded
C21_Witness ==
    /\ pc \in {"commit", "save"}
    /\ hist.sampled # <<>>
    /\ hist.sampled[1].action_probs[1][1] > 0
    /\ hist.sampled[1].action_probs[2][1] > hist.sampled[1].action_probs[1][1]
    /\ hist.sampled[1].temperature_action_probs # hist.sampled[1].action_probs
    /\ hist.sampled[1].actions[TopK] = ActInt(NoAction)

\* C22: a run performs at most max_steps self-play steps: the step counter
\* never exceeds max_steps, and no instance is live when the driver is back
\* at the head of its loop with the counter at max_steps.
C22_AtMostMaxSteps ==
    /\ count <= MaxSteps
    /\ hist.pb.n <= hist.pb.total
    /\ (pc = "loop" /\ count >= MaxSteps) => parallel_searches = <<>>

\* C23: the context id sent for a pending leaf is the token history of the
\* leaf's parent: the history the leaf was selected with, without the tokens
\* the leaf's action had then; for a leaf that is a root, the whole history.
C23_ContextIdIsParentHistory ==
    pc = "apply" =>
        \A k \in 1..Len(hist.requested) :
            LET q == hist.requested[k]
            IN hist.request.context_ids[k] =
                  IF nodes[q.leaf].parent = 0 THEN q.all_tokens
                  ELSE SubSeq(q.all_tokens, 1, Len(q.all_tokens) - Len(q.state))

\* the nodes reached from id through children, each with the tokens `prefix`
\* followed by the action tokens on the path from id to the node
RECURSIVE Down(_, _, _)
Down(ns, id, prefix) ==
    {<<id, prefix>>} \cup
    UNION {Down(ns, ns[id].children[k][2], prefix \o ns[ns[id].children[k][2]].action.toks) :
              k \in 1..Len(ns[id].children)}

\* C24: a commit that keeps its instance live appends the action's tokens to
\* the instance's tokens and installs as next root a new parentless node
\* with those tokens and the selected child's children, every existing node
\* unchanged; and during a search round the token history of every node
\* below an instance's root is the instance's tokens followed by the action
\* tokens on the path from the root to the node.
C24_GraftKeepsSubtree ==
    /\ [][(pc = "commit" /\ commitIdx' = commitIdx - 1 /\ hist'.preempts = hist.preempts
             /\ Len(parallel_searches') = Len(parallel_searches)) =>
            LET spg == parallel_searches[commitIdx]
                new == parallel_searches'[commitIdx]
                kids == nodes[spg.root].children
            IN \E k \in 1..Len(kids) :
                  LET child == kids[k][2]
                  IN /\ new.state = spg.state \o nodes[child].action.toks
                     /\ new.node.node = Len(nodes) + 1
                     /\ Len(nodes') = Len(nodes) + 1
                     /\ nodes'[new.node.node].parent = 0
                     /\ nodes'[new.node.node].state = new.state
                     /\ nodes'[new.node.node].children = nodes[child].children
                     /\ \A n \in 1..Len(nodes) : nodes'[n] = nodes[n]]_vars
    /\ [](pc \in {"select", "infer", "apply", "poll"} =>
            \A k \in 1..Len(parallel_searches) :
                \A x \in Down(nodes, parallel_searches[k].root, parallel_searches[k].state) :
                    get_all_tokens(nodes, x[1]) = x[2])

\* in the round after a commit, a root installed by the commit has a child
\* it took over from the selected child, and that child has children
C24_Witness ==
    /\ pc = "poll"
    /\ count = 2
    /\ \E k \in 1..Len(parallel_searches) :
          LET root == parallel_searches[k].root
          IN /\ nodes[root].init_visit = 0
             /\ \E j \in 1..Len(nodes[root].children) :
                   LET kid == nodes[root].children[j][2]
                   IN /\ nodes[kid].parent # root
                      /\ kid < root
                      /\ nodes[kid].visit_count > 0
                      /\ Len(nodes[kid].children) > 0

\* the nodes of live instance k's tree: below its root and, once a commit
\* has replaced the root, below its first root
InstanceNodes(k) ==
    Below(nodes, parallel_searches[k].root) \cup
    (IF count > 1 THEN Below(nodes, backup_root_nodes[k]) ELSE {})

\* C25: the request built in an iteration holds exactly the pending leaves
\* of the instances whose terminate flag is not set, and applying the
\* oracle's answers changes no node of an instance whose flag is set.
C25_TerminatedNotRequested ==
    /\ [][(pc = "infer" /\ pc' = "apply") =>
            /\ \A k \in 1..Len(hist'.requested) :
                  /\ ~terminate[parallel_searches[hist'.requested[k].idx].data_id]
                  /\ hist'.request.data_ids[k] =
                         parallel_searches[hist'.requested[k].idx].data_id
                  /\ hist'.requested[k].leaf =
                         parallel_searches[hist'.requested[k].idx].node.node
            /\ \A j \in 1..Len(parallel_searches) :
                  terminate[parallel_searches[j].data_id] =>
                      /\ parallel_searches'[j].node.kind = "none"
                      /\ \A k \in 1..Len(hist'.requested) : hist'.requested[k].idx # j]_vars
    /\ [][(pc = "apply" /\ applyIdx' = applyIdx + 1) =>
            \A j \in 1..Len(parallel_searches) :
                terminate[parallel_searches[j].data_id] =>
                    /\ \A n \in InstanceNodes(j) : nodes'[n] = nodes[n]
                    /\ parallel_searches'[j] = parallel_searches[j]]_vars

\* a request is being applied while a live instance is flagged terminate in
\* a mode where flagged instances select a pending leaf
C25_Witness ==
    /\ pc = "apply"
    /\ ~env.oracle
    /\ ~hist.hit
    /\ Len(hist.requested) = 1
    /\ Len(parallel_searches) = 2
    /\ \E j \in 1..2 : /\ terminate[parallel_searches[j].data_id]
                         /\ hist.requested[1].idx # j

\* C26: once the search round of step 1 is over, the live list and the two
\* backup lists have the same length, and entry i of the backup lists is
\* the initial context of live instance i and the root that instance got in
\* its first round, whose tokens are that context (the driver's assertion);
\* this holds after every removal of the reverse passes.
C26_BackupsFollowInstances ==
    ((count = 1 /\ pc \in {"commit", "save"}) \/ (count >= 1 /\ pc = "loop")
        \/ (count >= 2 /\ pc \in {"select", "infer", "apply", "poll", "commit", "save"})
        \/ pc = "resumed" \/ (pc = "idle" /\ hist.polledExit)) =>
        /\ Len(backup_root_states) = Len(parallel_searches)
        /\ Len(backup_root_nodes) = Len(parallel_searches)
        /\ \A i \in 1..Len(parallel_searches) :
              /\ backup_root_states[i] = env.contexts[parallel_searches[i].data_id]
              /\ backup_root_nodes[i] = hist.firstRoot[parallel_searches[i].data_id]
              /\ nodes[backup_root_nodes[i]].state = backup_root_states[i]
              /\ nodes[backup_root_nodes[i]].parent = 0

\* the first instance was removed by a commit while the second, which has
\* another initial context, stays live and is now entry 1
C26_Witness ==
    /\ pc \in {"save", "loop"}
    /\ Len(hist.dropped) = 1
    /\ hist.dropped[1] = 1
    /\ hist.cleanups[1].why # "exit"
    /\ Len(parallel_searches) = 1
    /\ parallel_searches[1].data_id = 2
    /\ env.contexts[1] # env.contexts[2]
    /\ backup_root_states = <<env.contexts[2]>>

\* what the main loop owns: instances, trees, caches, counter, collections,
\* checkpoint file and its own position
MainVars ==
    <<nodes, parallel_searches, backup_root_states, backup_root_nodes, return_memory,
      return_value_memory, return_postive_negative_smaples, count, cache, terminate,
      evaluation_cache, file, pc, search, spgIdx, expandable_search, result_dict,
      applyIdx, commitIdx>>

\* C27: a step that sets the save flag or the exit flag (a timer callback)
\* changes nothing the main loop owns and not the other flag; the main loop
\* clears the exit flag only where it polls it after the search round and
\* the save flag only at the end of the commit pass, acts on each flag
\* there (return on exit, checkpoint on save), and leaves a flag set
\* elsewhere as it is.
C27_TimersOnlySetFlags ==
    [][hist'.preempts = hist.preempts =>
        /\ (save_flag' /\ ~save_flag) => (UNCHANGED MainVars /\ exit' = exit)
        /\ (exit' /\ ~exit) => (UNCHANGED MainVars /\ save_flag' = save_flag)
        /\ timer' # timer => (save_flag' /\ UNCHANGED MainVars)
        /\ (exit_search_timer' = "finished" /\ exit_search_timer # "finished") =>
               (exit' /\ UNCHANGED MainVars)
        /\ (save_flag /\ ~save_flag') => (pc = "save" /\ file' = <<SaveObj>>)
        /\ (exit /\ ~exit') => (pc = "poll" /\ pc' = "idle")
        /\ (pc = "poll" /\ pc' # pc) => (exit <=> pc' = "idle")
        /\ (pc = "save" /\ pc' # pc) =>
               (IF save_flag THEN file' = <<SaveObj>> /\ ~save_flag' ELSE file' = file)
        /\ (pc' # pc /\ pc # "poll") => exit' = exit
        /\ (pc' # pc /\ pc # "save") => save_flag' = save_flag]_vars

\* both callbacks ran during a search round and the round went on: the flags
\* wait for their poll points
C27_Witness ==
    /\ pc = "apply"
    /\ search = 2
    /\ exit
    /\ save_flag
    /\ timer = "finished"
    /\ exit_search_timer = "finished"
    /\ Len(parallel_searches) = 2

\* C28: the step that builds the oracle request leaves every node as it
\* was (the pending leaves' tokens and actions included), and no node's
\* token history ever holds the pad token (the oracle returns none).
C28_RequestLeavesTreesAlone ==
    /\ [][(pc = "infer" /\ pc' = "apply") => nodes' = nodes]_vars
    /\ [](\A n \in 1..Len(nodes) :
             \A j \in 1..Len(get_all_tokens(nodes, n)) : get_all_tokens(nodes, n)[j] # PadId)

\* C29: every invocation of search starts: it meets no fatal error, the exit
\* flag is false and the wall-clock timer is armed for it, whatever ended
\* the invocation before it.
C29_EveryRunStartsArmed ==
    [][(pc = "idle" /\ hist'.runs = hist.runs + 1) =>
        /\ pc' # "error"
        /\ ~exit'
        /\ exit_search_timer' = "running"]_vars

\* C30: when the commit pass comes to a live instance, the instance's root
\* has between one and top_k children and one of them has a visit count
\* above 0.
C30_CommitRootHasVisitedChild ==
    (pc = "commit" /\ commitIdx \in 1..Len(parallel_searches)) =>
        LET root == parallel_searches[commitIdx].root
        IN /\ Len(nodes[root].children) >= 1
           /\ Len(nodes[root].children) <= TopK
           /\ ChildVisits(nodes, root) > 0

====
